---- MODULE Spec2Model ----
(***************************************************************************)
(* SkyMarshal computer-vision core: the per-track speed estimator          *)
(* (src/src/speed_estimator.py), the licence-plate reader with its cache   *)
(* (src/src/alpr.py), the per-frame orchestrator (src/src/processor.py)    *)
(* and the stream-mode consumer loop (src/main.py).                        *)
(*                                                                         *)
(* Numbers.  Ground coordinates are integers in millimetres, speeds are    *)
(* integers in thousandths of a km/h, OCR confidences are integers in      *)
(* hundredths, wall-clock time is an integer in tenths of a second.  The   *)
(* code computes in binary floating point; the fixed-point values below    *)
(* are the exact rational results rounded to the unit.                     *)
(*                                                                         *)
(* Python values.  A str is a sequence of one-character strings, None is   *)
(* the one-element sequence <<"None">> (no str has a multi-character       *)
(* element), so that every value a plate variable can hold is comparable.  *)
(***************************************************************************)
EXTENDS Integers, Sequences, FiniteSets, TLC

VARIABLES
    tracker_data,   \* SpeedEstimator.tracker_data : track id -> track record
    plate_cache,    \* LicensePlateReader.plate_cache : track id -> entry
    model_loaded,   \* LicensePlateReader.model_loaded
    reader,         \* LicensePlateReader.reader : "easyocr" or "None"
    now,            \* time.time(), tenths of a second
    call,           \* the last estimate_speed / detect_and_read call observed
    attempts,       \* history: track id -> time of its last recognition attempt
    resolved,       \* history: track id -> first non-empty text returned for it
    frame_out,      \* the last process_frame_data call observed
    streams,        \* stream id -> frame number of the next message of that stream
    iso,            \* reference: stream id -> the state a processor of its own would hold
    msg_out,        \* the last message handled by the stream loop
    drive,          \* the drive of track 1 under observation, and its history
    pending         \* thread -> the detect_and_read invocation it is inside

vars == <<tracker_data, plate_cache, model_loaded, reader, now, call,
          attempts, resolved, frame_out, streams, iso, msg_out, drive, pending>>

----------------------------------------------------------------------------
(* Bounds of the model *)

MaxFrame == 2      \* largest frame index passed to estimate_speed
MaxFrameNo == 1    \* largest frame number of a frame or of a stream message
MaxTime == 40      \* the clock stops here
MaxBoxes == 2      \* tracked boxes in one frame
MaxDrive == 28     \* observations of one drive

TrackIds == {1, 2}
Frames == 0..MaxFrame
FrameNos == 0..MaxFrameNo

----------------------------------------------------------------------------
(* Python values *)

None == <<"None">>

Truthy(v) == v # None /\ v # <<>>

Abs(x) == IF x < 0 THEN -x ELSE x

\* nearest integer to n / d (d may be negative), halves away from zero
RoundDiv(n, d) ==
    LET nn == IF d < 0 THEN -n ELSE n
        dd == Abs(d)
    IN IF nn >= 0 THEN (2 * nn + dd) \div (2 * dd)
                  ELSE -((2 * (-nn) + dd) \div (2 * dd))

RECURSIVE SqrtSearch(_, _, _)
SqrtSearch(n, lo, hi) ==
    IF lo >= hi THEN lo
    ELSE LET mid == (lo + hi + 1) \div 2
         IN IF mid * mid <= n THEN SqrtSearch(n, mid, hi)
                              ELSE SqrtSearch(n, lo, mid - 1)

\* floor of the square root; arguments stay below 2^31
ISqrt(n) == SqrtSearch(n, 0, 46340)

RECURSIVE SumSeq(_)
SumSeq(s) == IF s = <<>> THEN 0 ELSE Head(s) + SumSeq(Tail(s))

RECURSIVE InsertSorted(_, _)
InsertSorted(x, s) ==
    IF s = <<>> THEN <<x>>
    ELSE IF x <= Head(s) THEN <<x>> \o s
    ELSE <<Head(s)>> \o InsertSorted(x, Tail(s))

RECURSIVE Sorted(_)
Sorted(s) == IF s = <<>> THEN <<>> ELSE InsertSorted(Head(s), Sorted(Tail(s)))

\* Python slice s[a:b] for 0-based a, b (negative indices count from the end)
Slice(s, a, b) ==
    LET n  == Len(s)
        a0 == IF a < 0 THEN (IF a + n < 0 THEN 0 ELSE a + n) ELSE (IF a > n THEN n ELSE a)
        b0 == IF b < 0 THEN (IF b + n < 0 THEN 0 ELSE b + n) ELSE (IF b > n THEN n ELSE b)
    IN IF a0 >= b0 THEN <<>> ELSE SubSeq(s, a0 + 1, b0)

----------------------------------------------------------------------------
(* SpeedEstimator *)

\* cv2.getPerspectiveTransform of the default source and target points,
\* every entry multiplied by 7200
M == << <<-81, -135, 97200>>,
        <<0, -1600, 720000>>,
        <<0, -22, 7200>> >>

\* image point <<x, y>> -> ground point <<X, Y>> in millimetres
get_real_world_pos(point) ==
    LET x == point[1]
        y == point[2]
        w == M[3][1] * x + M[3][2] * y + M[3][3]
    IN << RoundDiv(1000 * (M[1][1] * x + M[1][2] * y + M[1][3]), w),
          RoundDiv(1000 * (M[2][1] * x + M[2][2] * y + M[2][3]), w) >>

\* np.linalg.norm of the difference, millimetres
Norm(p, q) == ISqrt((p[1] - q[1]) * (p[1] - q[1]) + (p[2] - q[2]) * (p[2] - q[2]))

\* dist / (frames_elapsed / fps) * 3.6, thousandths of a km/h
InstSpeedKmh(dist, frames_elapsed, fps) ==
    RoundDiv(dist * fps * 36, 10 * frames_elapsed)

SpeedMin == 5000
SpeedMax == 220000
HistoryCap == 25
TrimAbove == 15
TrimHalf == 5
DisplayMax == 160000
GraceFrames == 15
GraceHits == 8

\* round(x, 1): to the nearest tenth of a km/h, exact halves to the even tenth
Round1(x) ==
    LET q == x \div 100
        r == x % 100
    IN IF r < 50 THEN 100 * q
       ELSE IF r > 50 THEN 100 * (q + 1)
       ELSE IF q % 2 = 0 THEN 100 * q ELSE 100 * (q + 1)

Min(a, b) == IF a <= b THEN a ELSE b

\* NewTrack with the baseline frame left at 0
NewTrackFrameZero(current_frame, ground_pos) ==
    [last_frame |-> 0,
     last_pos |-> ground_pos,
     speed_history |-> <<>>,
     current_speed |-> 0,
     stable_frames |-> 0,
     hits |-> 0]

NewTrack(current_frame, ground_pos) ==
    [last_frame |-> current_frame,
     last_pos |-> ground_pos,
     speed_history |-> <<>>,
     current_speed |-> 0,
     stable_frames |-> 0,
     hits |-> 0]

\* Accepted without the upper bound
AcceptedNoCeiling(inst_speed_kmh) == SpeedMin < inst_speed_kmh

\* Accepted with no plausibility check at all
AcceptedAnySpeed(inst_speed_kmh) == TRUE

Accepted(inst_speed_kmh) == SpeedMin < inst_speed_kmh /\ inst_speed_kmh < SpeedMax

\* AppendHistory dropping the newest sample of a full history
AppendHistoryDropsNewest(history, inst_speed_kmh) ==
    LET h == Append(history, inst_speed_kmh)
    IN IF Len(h) > HistoryCap THEN SubSeq(h, 1, HistoryCap) ELSE h

AppendHistory(history, inst_speed_kmh) ==
    LET h == Append(history, inst_speed_kmh)
    IN IF Len(h) > HistoryCap THEN Tail(h) ELSE h

\* AvgSpeed with the window taken from the unsorted history
AvgSpeedUnsorted(history) ==
    LET mid == Len(history) \div 2
    IN IF Len(history) > TrimAbove
       THEN RoundDiv(SumSeq(Slice(history, mid - TrimHalf, mid + TrimHalf)), 10)
       ELSE RoundDiv(SumSeq(history), Len(history))

AvgSpeed(history) ==
    LET sorted_history == Sorted(history)
        mid == Len(sorted_history) \div 2
    IN IF Len(sorted_history) > TrimAbove
       THEN RoundDiv(SumSeq(Slice(sorted_history, mid - TrimHalf, mid + TrimHalf)), 10)
       ELSE RoundDiv(SumSeq(sorted_history), Len(sorted_history))

\* AcceptSample counting one stable frame per sample
AcceptSampleCountsCalls(data, inst_speed_kmh, frames_elapsed) ==
    LET h == AppendHistory(data.speed_history, inst_speed_kmh)
    IN [data EXCEPT !.speed_history = h,
                    !.current_speed = Min(Round1(AvgSpeed(h)), DisplayMax),
                    !.stable_frames = @ + 1,
                    !.hits = @ + 1]

\* AcceptSample without the display ceiling
AcceptSampleNoCeiling(data, inst_speed_kmh, frames_elapsed) ==
    LET h == AppendHistory(data.speed_history, inst_speed_kmh)
    IN [data EXCEPT !.speed_history = h,
                    !.current_speed = Round1(AvgSpeed(h)),
                    !.stable_frames = @ + frames_elapsed,
                    !.hits = @ + 1]

AcceptSample(data, inst_speed_kmh, frames_elapsed) ==
    LET h == AppendHistory(data.speed_history, inst_speed_kmh)
    IN [data EXCEPT !.speed_history = h,
                    !.current_speed = Min(Round1(AvgSpeed(h)), DisplayMax),
                    !.stable_frames = @ + frames_elapsed,
                    !.hits = @ + 1]

\* RejectSample starting the count of stable frames anew
RejectSampleResets(data) == [data EXCEPT !.stable_frames = 0]

\* a sample outside (5, 220): the block of the if is skipped
RejectSample(data) == data

\* Gate on the number of hits alone
GateHitsOnly(data) ==
    IF data.hits < GraceHits THEN 0 ELSE data.current_speed

Gate(data) ==
    IF data.stable_frames < GraceFrames \/ data.hits < GraceHits
    THEN 0 ELSE data.current_speed

Put(f, k, v) == [x \in DOMAIN f \cup {k} |-> IF x = k THEN v ELSE f[x]]

\* StaleFrame starting the frame clock of the track anew
StaleFrameRewinds(td, track_id, ground_pos) ==
    [td |-> Put(td, track_id, [td[track_id] EXCEPT !.last_frame = 0]),
     ret |-> td[track_id].current_speed, raised |-> FALSE]

\* StaleFrame with the position update made before the early return
StaleFrameMovesPos(td, track_id, ground_pos) ==
    [td |-> Put(td, track_id, [td[track_id] EXCEPT !.last_pos = ground_pos]),
     ret |-> td[track_id].current_speed, raised |-> FALSE]

\* the early return on frames_elapsed <= 0
StaleFrame(td, track_id, ground_pos) ==
    [td |-> td, ret |-> td[track_id].current_speed, raised |-> FALSE]

\* estimate_speed as a function of the estimator's map: the new map, the
\* value returned, and whether the call raised (ZeroDivisionError at fps 0)
estimate_speed(td, track_id, current_pos, current_frame, fps) ==
    LET ground_pos == get_real_world_pos(current_pos)
    IN IF track_id \notin DOMAIN td
       THEN [td |-> Put(td, track_id, NewTrack(current_frame, ground_pos)),
             ret |-> 0, raised |-> FALSE]
       ELSE LET data == td[track_id]
                frames_elapsed == current_frame - data.last_frame
            IN IF frames_elapsed <= 0
               THEN StaleFrame(td, track_id, ground_pos)
               ELSE IF fps = 0
               THEN [td |-> td, ret |-> 0, raised |-> TRUE]
               ELSE LET dist == Norm(ground_pos, data.last_pos)
                        inst_speed_kmh == InstSpeedKmh(dist, frames_elapsed, fps)
                        d1 == IF Accepted(inst_speed_kmh)
                              THEN AcceptSample(data, inst_speed_kmh, frames_elapsed)
                              ELSE RejectSample(data)
                        d2 == [d1 EXCEPT !.last_pos = ground_pos,
                                         !.last_frame = current_frame]
                    IN [td |-> Put(td, track_id, d2), ret |-> Gate(d2), raised |-> FALSE]

----------------------------------------------------------------------------
(* LicensePlateReader *)

Scanning == <<"S", "c", "a", "n", "n", "i", "n", "g", ".", ".", ".">>
Unknown == <<"U", "n", "k", "n", "o", "w", "n">>

RetryInterval == 20
PlateConfMin == 30
FallbackMinLen == 5

LowerCase == <<"a", "b", "c", "d", "e", "f", "g", "h", "i", "j", "k", "l", "m",
               "n", "o", "p", "q", "r", "s", "t", "u", "v", "w", "x", "y", "z">>
UpperCase == <<"A", "B", "C", "D", "E", "F", "G", "H", "I", "J", "K", "L", "M",
               "N", "O", "P", "Q", "R", "S", "T", "U", "V", "W", "X", "Y", "Z">>
Digits == {"0", "1", "2", "3", "4", "5", "6", "7", "8", "9"}

\* str.upper() on one character
Upper(c) ==
    IF \E i \in 1..26 : LowerCase[i] = c
    THEN UpperCase[CHOOSE i \in 1..26 : LowerCase[i] = c]
    ELSE c

AlphaNum(c) == c \in Digits \/ \E i \in 1..26 : UpperCase[i] = c

\* _clean_plate_text without the upper-casing
RECURSIVE CleanKeepsCase(_)
CleanKeepsCase(text) ==
    IF text = <<>> THEN <<>>
    ELSE (IF AlphaNum(Head(text)) \/ \E i \in 1..26 : LowerCase[i] = Head(text)
          THEN <<Head(text)>> ELSE <<>>) \o CleanKeepsCase(Tail(text))

\* re.sub(r'[^A-Z0-9]', '', text.upper())
RECURSIVE _clean_plate_text(_)
_clean_plate_text(text) ==
    IF text = <<>> THEN <<>>
    ELSE LET c == Upper(Head(text))
         IN (IF AlphaNum(c) THEN <<c>> ELSE <<>>) \o _clean_plate_text(Tail(text))

\* rows (or columns) of the numpy slice a[lo:hi] of an axis of length n, 0 <= lo, hi
SliceLen(lo, hi, n) ==
    LET l == Min(lo, n)
        h == Min(hi, n)
    IN IF h > l THEN h - l ELSE 0

\* plate_crop.size of vehicle_frame[y1:y2, x1:x2]
PlateCropSize(img, box) ==
    SliceLen(box[2], box[4], img.h) * SliceLen(box[1], box[3], img.w)

\* the loop over the plate boxes: the first box with a non-empty crop and an
\* OCR reading of confidence above 0.3 ends it; reader None raises AttributeError
RECURSIVE ScanPlates(_, _, _, _)
ScanPlates(img, rdr, plates, ocr_calls) ==
    IF plates = <<>>
    THEN [best |-> None, ocr_calls |-> ocr_calls, raised |-> FALSE]
    ELSE LET p == Head(plates)
         IN IF PlateCropSize(img, p.box) = 0
            THEN ScanPlates(img, rdr, Tail(plates), ocr_calls)
            ELSE IF rdr = "None"
            THEN [best |-> None, ocr_calls |-> ocr_calls, raised |-> TRUE]
            ELSE IF p.ocr # <<>> /\ p.ocr[1][2] > PlateConfMin
            THEN [best |-> _clean_plate_text(p.ocr[1][1]),
                  ocr_calls |-> ocr_calls + 1, raised |-> FALSE]
            ELSE ScanPlates(img, rdr, Tail(plates), ocr_calls + 1)

\* the loop of _fallback_ocr: <<best_text, best_conf>> after the candidates
RECURSIVE BestCandidate(_, _, _)
BestCandidate(ocr_results, best_text, best_conf) ==
    IF ocr_results = <<>> THEN <<best_text, best_conf>>
    ELSE LET cleaned == _clean_plate_text(Head(ocr_results)[1])
             conf == Head(ocr_results)[2]
         IN IF Len(cleaned) >= FallbackMinLen /\ conf > best_conf
            THEN BestCandidate(Tail(ocr_results), cleaned, conf)
            ELSE BestCandidate(Tail(ocr_results), best_text, best_conf)

\* rows of vehicle_frame[int(h*0.4):, :] times its columns
BottomHalfSize(img) == (img.h - ((img.h * 4) \div 10)) * img.w

_fallback_ocr(rdr, img) ==
    IF rdr = "None" THEN [ret |-> None, ocr_calls |-> 0]
    ELSE IF BottomHalfSize(img) = 0 THEN [ret |-> None, ocr_calls |-> 0]
    ELSE LET best_text == BestCandidate(img.fallback, None, 0)[1]
         IN [ret |-> IF Truthy(best_text) THEN best_text ELSE None, ocr_calls |-> 1]

CacheHit(cache, track_id, t) ==
    /\ track_id \in DOMAIN cache
    /\ \/ Truthy(cache[track_id].text) /\ cache[track_id].text # Unknown
       \/ t - cache[track_id].last_attempt < RetryInterval

UpdateCache(cache, track_id, best_plate_text, t) ==
    IF Truthy(best_plate_text)
    THEN Put(cache, track_id, [text |-> best_plate_text, last_attempt |-> t])
    ELSE cache

\* detect_and_read past the cache check (alpr.py:63-103), t the time read at
\* its start: the new cache, the value returned, whether it raised, and how
\* often it ran the plate model, OCR and _fallback_ocr
Recognize(cache, loaded, rdr, img, track_id, t) ==
    IF ~loaded
    THEN LET fb == _fallback_ocr(rdr, img)
         IN [cache |-> cache, ret |-> fb.ret, raised |-> FALSE, attempt |-> TRUE,
             model_calls |-> 0, ocr_calls |-> fb.ocr_calls, fb_calls |-> 1]
    ELSE LET scan == ScanPlates(img, rdr, img.plates, 0)
         IN IF scan.raised
            THEN [cache |-> cache, ret |-> None, raised |-> TRUE, attempt |-> TRUE,
                  model_calls |-> 1, ocr_calls |-> scan.ocr_calls, fb_calls |-> 0]
            ELSE LET use_fb == ~Truthy(scan.best) \/ scan.best = Scanning
                     fb == _fallback_ocr(rdr, img)
                     best_plate_text == IF use_fb THEN fb.ret ELSE scan.best
                 IN [cache |-> UpdateCache(cache, track_id, best_plate_text, t),
                     ret |-> IF Truthy(best_plate_text) THEN best_plate_text ELSE Scanning,
                     raised |-> FALSE,
                     attempt |-> TRUE,
                     model_calls |-> 1,
                     ocr_calls |-> scan.ocr_calls + (IF use_fb THEN fb.ocr_calls ELSE 0),
                     fb_calls |-> IF use_fb THEN 1 ELSE 0]

\* detect_and_read as a function of the cache: the new cache, the value
\* returned, whether it raised, whether the call got past the cache, and how
\* often it ran the plate model, OCR and _fallback_ocr
detect_and_read(cache, loaded, rdr, img, track_id, t) ==
    IF CacheHit(cache, track_id, t)
    THEN [cache |-> cache, ret |-> cache[track_id].text, raised |-> FALSE,
          attempt |-> FALSE, model_calls |-> 0, ocr_calls |-> 0, fb_calls |-> 0]
    ELSE Recognize(cache, loaded, rdr, img, track_id, t)

----------------------------------------------------------------------------
(* VideoProcessor *)

NotCalled == <<"NotCalled">>

\* results[0].names of the detector for the vehicle classes it tracks
Names == [c \in {2, 3, 5, 7} |->
            IF c = 2 THEN "car" ELSE IF c = 3 THEN "motorcycle"
            ELSE IF c = 5 THEN "bus" ELSE "truck"]

\* (int((x1 + x2) / 2), y2)
BottomCenter(xyxy) == << (xyxy[1] + xyxy[3]) \div 2, xyxy[4] >>

DigitChars == <<"0", "1", "2", "3", "4", "5", "6", "7", "8", "9">>

\* str() of a natural number
RECURSIVE NatStr(_)
NatStr(n) ==
    IF n < 10 THEN <<DigitChars[n + 1]>>
    ELSE NatStr(n \div 10) \o <<DigitChars[(n % 10) + 1]>>

\* f"{speed}" of the int 0 or of a float rounded to one decimal
SpeedStr(speed) ==
    IF speed = 0 THEN <<"0">>
    ELSE NatStr(speed \div 1000) \o <<".">> \o NatStr((speed % 1000) \div 100)

\* " | ".join(label_parts)
Label(track_id, plate_text, speed) ==
    <<"I", "D", ":", " ">> \o NatStr(track_id)
    \o (IF Truthy(plate_text) THEN <<" ", "|", " ">> \o plate_text ELSE <<>>)
    \o <<" ", "|", " ">> \o SpeedStr(speed) \o <<" ", "k", "m", "/", "h">>

\* what the annotation of one box draws on the frame
Annotation(b, plate_text, speed) ==
    [track_id |-> b.track_id, xyxy |-> b.xyxy,
     label |-> Label(b.track_id, plate_text, speed)]

\* pixel (x, y) lies in the region frame[c[2]:c[4], c[1]:c[3]]
InRegion(x, y, c) == c[1] <= x /\ x < c[3] /\ c[2] <= y /\ y < c[4]

\* the one-pixel rectangle (x1, y1) - (x2, y2) of annotation a has a pixel in region c
OutlineIn(a, c) ==
    \/ /\ \/ c[1] <= a.xyxy[1] /\ a.xyxy[1] < c[3]
          \/ c[1] <= a.xyxy[3] /\ a.xyxy[3] < c[3]
       /\ a.xyxy[2] < c[4] /\ a.xyxy[4] >= c[2]
    \/ /\ \/ c[2] <= a.xyxy[2] /\ a.xyxy[2] < c[4]
          \/ c[2] <= a.xyxy[4] /\ a.xyxy[4] < c[4]
       /\ a.xyxy[1] < c[3] /\ a.xyxy[3] >= c[1]

\* the label of annotation a, written from (x1 + 2, y1 - 4), starts in region c
LabelIn(a, c) == InRegion(a.xyxy[1] + 2, a.xyxy[2] - 4, c)

\* the bottom 60% of region c, where _fallback_ocr reads
BottomRegion(c) == <<c[1], c[2] + (((c[4] - c[2]) * 4) \div 10), c[3], c[4]>>

\* the labels OCR reads among the annotations drawn in the region
RECURSIVE LabelReadings(_, _)
LabelReadings(drawn, c) ==
    IF drawn = <<>> THEN <<>>
    ELSE (IF LabelIn(Head(drawn), c) THEN << <<Head(drawn).label, 60>> >> ELSE <<>>)
         \o LabelReadings(Tail(drawn), c)

RECURSIVE Marks(_, _)
Marks(drawn, c) ==
    IF drawn = <<>> THEN <<>>
    ELSE (IF OutlineIn(Head(drawn), c) \/ LabelIn(Head(drawn), c)
          THEN <<Head(drawn).track_id>> ELSE <<>>)
         \o Marks(Tail(drawn), c)

\* frame[y1:y2, x1:x2] of the frame as it is when the box is reached, drawn
\* holding what was drawn on it so far: the readings the collaborators give
\* on that region, and the ids of the tracks whose annotation lies in it
VehicleCrop(frame, b, drawn) ==
    [h |-> SliceLen(b.xyxy[2], b.xyxy[4], frame.h),
     w |-> SliceLen(b.xyxy[1], b.xyxy[3], frame.w),
     plates |-> b.content.plates,
     fallback |-> b.content.fallback
                  \o (IF frame.labels_read
                      THEN LabelReadings(drawn, BottomRegion(b.xyxy)) ELSE <<>>),
     marks |-> Marks(drawn, b.xyxy)]

\* PlateText without the comparison with the sentinel
PlateTextKeepsSentinel(read_plate) ==
    IF Truthy(read_plate) THEN read_plate ELSE None

\* read_plate and read_plate != "Scanning..."
PlateText(read_plate) ==
    IF Truthy(read_plate) /\ read_plate # Scanning THEN read_plate ELSE None

Detection(b, plate_text, speed) ==
    [track_id |-> b.track_id,
     vehicle_type |-> Names[b.cls],
     confidence |-> b.conf,
     box_coordinates |-> b.xyxy,
     license_plate |-> plate_text,
     speed |-> speed]

\* the loop over the tracked boxes; an exception of a callee leaves the loop
\* and the method, keeping what the callees had already written
RECURSIVE ProcessBoxes(_, _, _, _, _, _, _, _, _)
ProcessBoxes(st, frame, boxes, frame_number, fps, loaded, rdr, t, annotate) ==
    IF boxes = <<>> \/ st.raised THEN st
    ELSE LET b == Head(boxes)
             es == estimate_speed(st.td, b.track_id, BottomCenter(b.xyxy), frame_number, fps)
             vehicle_crop == VehicleCrop(frame, b, st.drawn)
             readable == vehicle_crop.h * vehicle_crop.w > 0
             dr == detect_and_read(st.cache, loaded, rdr, vehicle_crop, b.track_id, t)
             plate_text == IF readable THEN PlateText(dr.ret) ELSE None
         IN IF es.raised
            THEN [st EXCEPT !.raised = TRUE, !.speed_calls = @ + 1]
            ELSE IF readable /\ dr.raised
            THEN [st EXCEPT !.td = es.td, !.raised = TRUE,
                            !.speed_calls = @ + 1,
                            !.reads = Append(@, None),
                            !.marks = Append(@, vehicle_crop.marks)]
            ELSE ProcessBoxes(
                   [st EXCEPT !.td = es.td,
                              !.cache = IF readable THEN dr.cache ELSE @,
                              !.speed_calls = @ + 1,
                              !.reads = Append(@, IF readable THEN dr.ret ELSE NotCalled),
                              !.marks = Append(@, IF readable THEN vehicle_crop.marks
                                                  ELSE <<>>),
                              !.detections = Append(@, Detection(b, plate_text, es.ret)),
                              !.drawn = IF annotate
                                        THEN Append(@, Annotation(b, plate_text, es.ret))
                                        ELSE @],
                   frame, Tail(boxes), frame_number, fps, loaded, rdr, t, annotate)

\* process_frame_data as a function of the two maps
process_frame_data(td, cache, loaded, rdr, t, frame, frame_number, fps, annotate) ==
    LET st0 == [td |-> td, cache |-> cache, detections |-> <<>>, reads |-> <<>>,
                raised |-> FALSE, speed_calls |-> 0, marks |-> <<>>, drawn |-> <<>>]
        st == IF frame.has_ids
              THEN ProcessBoxes(st0, frame, frame.boxes, frame_number, fps, loaded, rdr,
                                t, annotate)
              ELSE st0
    IN [td |-> st.td, cache |-> st.cache, raised |-> st.raised, reads |-> st.reads,
        detections |-> IF st.raised THEN <<>> ELSE st.detections,
        annotated |-> annotate /\ ~st.raised,
        speed_calls |-> st.speed_calls, marks |-> st.marks]

----------------------------------------------------------------------------
(* Inputs *)

\* bottom-centre points of a vehicle on the default 1280 x 720 view
ImagePoints == {<<640, 600>>, <<640, 610>>, <<640, 630>>}

FrameRates == {30}

TextAB1234 == <<"A", "B", "1", "2", "3", "4">>
TextRaw == <<"a", "-", "b", " ", "1", "2", "3", "4", "!">>
TextZX9876 == <<"Z", "X", "9", "8", "7", "6">>
TextShort == <<"A", "B", "1", "2">>

\* what the plate detector and the OCR engine read on a vehicle region
ContentPlate ==
    [plates |-> << [box |-> <<20, 40, 60, 55>>, ocr |-> << <<TextRaw, 90>> >>] >>,
     fallback |-> <<>>]
ContentFallback ==
    [plates |-> <<>>,
     fallback |-> << <<TextShort, 95>>, <<TextZX9876, 80>> >>]
ContentBlank ==
    [plates |-> <<>>, fallback |-> << <<TextShort, 95>> >>]

TextSymbols == <<"-", "-", " ", "!">>

\* four candidate regions: one read at confidence 0.3, one of no area, one
\* without a reading, one read at confidence 0.31
ContentEdge ==
    [plates |-> << [box |-> <<10, 30, 50, 45>>, ocr |-> << <<TextZX9876, 30>> >>],
                   [box |-> <<30, 50, 30, 58>>, ocr |-> << <<TextZX9876, 90>> >>],
                   [box |-> <<20, 20, 60, 35>>, ocr |-> <<>>],
                   [box |-> <<20, 40, 60, 55>>, ocr |-> << <<TextRaw, 31>>,
                                                          <<TextZX9876, 95>> >>] >>,
     fallback |-> << <<TextZX9876, 80>> >>]
\* a candidate region read with confidence but without a letter or digit
ContentSymbols ==
    [plates |-> << [box |-> <<20, 40, 60, 55>>, ocr |-> << <<TextSymbols, 90>> >>],
                   [box |-> <<20, 20, 60, 35>>, ocr |-> << <<TextRaw, 90>> >>] >>,
     fallback |-> << <<TextZX9876, 80>>, <<TextAB1234, 80>> >>]
\* the only reading of the whole region has confidence 0
ContentFaint ==
    [plates |-> <<>>, fallback |-> << <<TextSymbols, 50>>, <<TextZX9876, 0>> >>]

\* raw texts an OCR engine may return: the texts above, and every text of at
\* most two characters among a letter of either case, a digit and two symbols
RawChars == {"a", "B", "z", "7", "-", " "}
RawTexts ==
    {<<>>, TextRaw, TextAB1234, TextZX9876, TextShort, TextSymbols, Scanning}
    \cup {<<c>> : c \in RawChars}
    \cup {<<c, d>> : c \in RawChars, d \in RawChars}

Contents == {ContentPlate, ContentFallback, ContentBlank, ContentEdge,
             ContentSymbols, ContentFaint}

VehicleImages ==
    {[h |-> 60, w |-> 80, plates |-> c.plates, fallback |-> c.fallback] : c \in Contents}

\* tracked boxes of one vehicle: near the camera with a readable plate, one
\* step further with an unreadable one, and a degenerate box
BoxesOf(k) ==
    {[xyxy |-> <<600, 540, 680, 600>>, track_id |-> k, conf |-> 90, cls |-> 2,
      content |-> ContentPlate],
     [xyxy |-> <<600, 550, 680, 610>>, track_id |-> k, conf |-> 85, cls |-> 7,
      content |-> ContentBlank],
     [xyxy |-> <<600, 630, 680, 630>>, track_id |-> k, conf |-> 40, cls |-> 2,
      content |-> ContentBlank]}

TrackedBoxes == UNION {BoxesOf(k) : k \in TrackIds}

\* the tracker gives each box of a frame its own id; of two vehicles in a
\* frame at least one shows a plate region
BoxLists ==
    {<<>>} \cup {<<b>> : b \in TrackedBoxes}
    \cup (IF MaxBoxes >= 2
          THEN {bl \in {<<b1, b2>> : b1 \in BoxesOf(1), b2 \in BoxesOf(2)} :
                   bl[1].content = ContentPlate \/ bl[2].content = ContentPlate}
          ELSE {})

FramesIn ==
    {[h |-> 720, w |-> 1280, has_ids |-> TRUE, boxes |-> bl, labels_read |-> FALSE] :
        bl \in BoxLists}
    \cup {[h |-> 720, w |-> 1280, has_ids |-> FALSE, boxes |-> <<>>,
           labels_read |-> FALSE]}

\* a car in front of a truck: the box of the car lies inside that of the truck
CarBoxes ==
    {[xyxy |-> <<620, 580, 680, 610>>, track_id |-> 1, conf |-> 90, cls |-> 2,
      content |-> c] : c \in {ContentPlate, ContentBlank}}
TruckBoxes ==
    {[xyxy |-> <<600, 520, 700, 620>>, track_id |-> 2, conf |-> 80, cls |-> 7,
      content |-> c] : c \in {ContentPlate, ContentBlank}}
\* a vehicle apart from both
FarBoxes ==
    {[xyxy |-> <<500, 590, 560, 625>>, track_id |-> 2, conf |-> 70, cls |-> 2,
      content |-> ContentBlank]}

\* frames of overlapping vehicles; labels_read tells whether the OCR engine
\* reads a label drawn in the region it is given
OverlapFrames ==
    {[h |-> 720, w |-> 1280, has_ids |-> TRUE, boxes |-> bl, labels_read |-> lr] :
        bl \in {<<b1, b2>> : b1 \in CarBoxes, b2 \in TruckBoxes \cup FarBoxes}
               \cup {<<b2, b1>> : b1 \in CarBoxes, b2 \in TruckBoxes},
        lr \in BOOLEAN}

\* the frames of a stream: one tracked vehicle, or none
StreamFrames == {fr \in FramesIn : Len(fr.boxes) <= 1}

\* every caller of process_frame_data in the repository asks for the annotated frame
Annotate == {TRUE}

\* worker threads sharing one LicensePlateReader
Threads == {"w1", "w2"}

\* two crops of one vehicle on which different texts are read
RaceImages ==
    {[h |-> 60, w |-> 80, plates |-> c.plates, fallback |-> c.fallback] :
        c \in {ContentPlate, ContentFallback}}

StreamIds == {"A", "B"}
TickSteps == {10, 20}

\* drives of one vehicle: the image points it is seen at, in turn, and the
\* frames between two observations
Plans ==
    << [cycle |-> << <<640, 600>>, <<640, 610>> >>, step |-> 1, stops |-> 0],
       [cycle |-> << <<640, 600>>, <<640, 610>> >>, step |-> 2, stops |-> 0],
       [cycle |-> << <<640, 600>>, <<640, 610>>, <<640, 630>> >>, step |-> 2, stops |-> 0],
       [cycle |-> << <<640, 600>>, <<640, 630>> >>, step |-> 2, stops |-> 0],
       [cycle |-> << <<640, 600>> >>, step |-> 1, stops |-> 0],
       [cycle |-> << <<640, 600>>, <<640, 630>> >>, step |-> 1, stops |-> 0],
       [cycle |-> << <<640, 600>>, <<640, 610>> >>, step |-> 2, stops |-> 12],
       [cycle |-> << <<640, 600>>, <<640, 610>>, <<640, 630>> >>, step |-> 2, stops |-> 20] >>

\* where the vehicle is at its idx-th observation (from 0): it follows the
\* cycle and, if it stops, stays where it was at observation stops - 1
PlanPoint(plan, idx) ==
    LET at == IF plan.stops > 0 /\ idx >= plan.stops THEN plan.stops - 1 ELSE idx
    IN plan.cycle[(at % Len(plan.cycle)) + 1]

\* the track id the tracker gave the vehicle
DriveTrack == CHOOSE k \in TrackIds : \A j \in TrackIds : k <= j

----------------------------------------------------------------------------
(* State *)

Empty == [k \in {} |-> None]

NoCall == [op |-> "none", track_id |-> 0, ret |-> None, raised |-> FALSE,
           frame |-> 0, pos |-> <<0, 0>>, fps |-> 0, known |-> FALSE, pre |-> NewTrack(0, <<0, 0>>),
           recog |-> 0, at |-> 0, prev_attempt |-> -1, prev_resolved |-> None,
           img |-> <<>>, attempt |-> FALSE, model_calls |-> 0, fb_calls |-> 0,
           cached |-> FALSE, pre_text |-> None, text |-> <<>>]

NoFrameOut == [op |-> "none", frame |-> <<>>, reads |-> <<>>, detections |-> <<>>,
               annotated |-> FALSE, raised |-> FALSE, speed_calls |-> 0,
               marks |-> <<>>, annotate |-> FALSE, plain |-> <<>>]

NoMsgOut == [op |-> "none", stream_id |-> "", frame_number |-> 0, events |-> <<>>,
             frame_event |-> FALSE, error |-> FALSE]

\* no invocation in progress
Idle == [pc |-> "idle", track_id |-> 0, img |-> <<>>, at |-> 0]

NoDrive == [plan |-> 0, idx |-> 0, log |-> <<>>, rejected |-> 0, stale |-> FALSE]

Init ==
    /\ tracker_data = Empty
    /\ plate_cache = Empty
    /\ model_loaded \in BOOLEAN
    /\ reader \in {"easyocr", "None"}
    /\ now = 0
    /\ call = NoCall
    /\ attempts = [k \in TrackIds |-> -1]
    /\ resolved = [k \in TrackIds |-> None]
    /\ frame_out = NoFrameOut
    /\ streams = [s \in StreamIds |-> 0]
    /\ iso = [s \in StreamIds |-> [td |-> Empty, cache |-> Empty, events |-> <<>>]]
    /\ msg_out = NoMsgOut
    /\ drive = NoDrive
    /\ pending = [i \in Threads |-> Idle]

----------------------------------------------------------------------------
(* Operations *)

\* the clock between two calls
Tick(d) ==
    /\ now + d <= MaxTime
    /\ now' = now + d
    /\ UNCHANGED <<tracker_data, plate_cache, model_loaded, reader, call, attempts,
                   resolved, frame_out, streams, iso, msg_out, drive, pending>>

\* a call of SpeedEstimator.estimate_speed, observed
Observe(track_id, current_pos, current_frame, fps) ==
    \E r \in {estimate_speed(tracker_data, track_id, current_pos, current_frame, fps)} :
    \E known \in {track_id \in DOMAIN tracker_data} :
       /\ tracker_data' = r.td
       /\ call' = [NoCall EXCEPT !.op = "estimate_speed", !.track_id = track_id,
                                 !.ret = r.ret, !.raised = r.raised,
                                 !.frame = current_frame, !.pos = current_pos,
                                 !.fps = fps,
                                 !.known = known,
                                 !.pre = IF known THEN tracker_data[track_id] ELSE @,
                                 !.at = now]
       /\ UNCHANGED <<plate_cache, model_loaded, reader, now, attempts, resolved,
                      frame_out, streams, iso, msg_out>>

\* a call of SpeedEstimator.estimate_speed
EstimateSpeed(track_id, current_pos, current_frame, fps) ==
    Observe(track_id, current_pos, current_frame, fps) /\ UNCHANGED <<drive, pending>>

\* a call of LicensePlateReader.detect_and_read
DetectAndRead(vehicle_frame, track_id) ==
    \E r \in {detect_and_read(plate_cache, model_loaded, reader, vehicle_frame,
                               track_id, now)} :
    \E recog \in {r.model_calls + r.ocr_calls} :
       /\ plate_cache' = r.cache
       /\ call' = [NoCall EXCEPT !.op = "detect_and_read", !.track_id = track_id,
                                 !.ret = r.ret, !.raised = r.raised,
                                 !.img = vehicle_frame, !.attempt = r.attempt,
                                 !.model_calls = r.model_calls,
                                 !.fb_calls = r.fb_calls,
                                 !.cached = track_id \in DOMAIN plate_cache,
                                 !.pre_text = IF track_id \in DOMAIN plate_cache
                                              THEN plate_cache[track_id].text ELSE None,
                                 !.recog = recog, !.at = now,
                                 !.prev_attempt = attempts[track_id],
                                 !.prev_resolved = resolved[track_id]]
       /\ attempts' = IF recog > 0 THEN [attempts EXCEPT ![track_id] = now] ELSE attempts
       /\ resolved' = IF resolved[track_id] = None /\ ~r.raised
                         /\ Truthy(r.ret) /\ r.ret # Scanning
                      THEN [resolved EXCEPT ![track_id] = r.ret] ELSE resolved
       /\ UNCHANGED <<tracker_data, model_loaded, reader, now, frame_out, streams,
                      iso, msg_out, drive, pending>>

\* a thread enters detect_and_read: it reads the clock and checks the cache
\* (alpr.py:50-61), and returns at once on a hit
Enter(i, vehicle_frame, track_id) ==
    /\ pending[i].pc = "idle"
    /\ pending' = IF CacheHit(plate_cache, track_id, now)
                  THEN pending
                  ELSE [pending EXCEPT ![i] = [pc |-> "recognizing", track_id |-> track_id,
                                               img |-> vehicle_frame, at |-> now]]
    /\ UNCHANGED <<tracker_data, plate_cache, model_loaded, reader, now, call, attempts,
                   resolved, frame_out, streams, iso, msg_out, drive>>

\* a thread past the cache check recognizes, writes the cache and returns
\* (alpr.py:63-103)
Complete(i) ==
    /\ pending[i].pc = "recognizing"
    /\ \E r \in {Recognize(plate_cache, model_loaded, reader, pending[i].img,
                            pending[i].track_id, pending[i].at)} :
          plate_cache' = r.cache
    /\ pending' = [pending EXCEPT ![i] = Idle]
    /\ UNCHANGED <<tracker_data, model_loaded, reader, now, call, attempts,
                   resolved, frame_out, streams, iso, msg_out, drive>>

\* a call of LicensePlateReader._clean_plate_text
CleanPlateText(text) ==
    /\ call' = [NoCall EXCEPT !.op = "_clean_plate_text", !.text = text,
                              !.ret = _clean_plate_text(text), !.at = now]
    /\ UNCHANGED <<tracker_data, plate_cache, model_loaded, reader, now, attempts,
                   resolved, frame_out, streams, iso, msg_out, drive, pending>>

\* a call of LicensePlateReader._fallback_ocr
FallbackOcr(vehicle_frame) ==
    \E r \in {_fallback_ocr(reader, vehicle_frame)} :
       /\ call' = [NoCall EXCEPT !.op = "_fallback_ocr", !.ret = r.ret,
                                 !.img = vehicle_frame, !.at = now]
       /\ UNCHANGED <<tracker_data, plate_cache, model_loaded, reader, now, attempts,
                      resolved, frame_out, streams, iso, msg_out, drive, pending>>

\* the instantaneous speed of an observed call, from its inputs
InstSpeedOf(c) ==
    InstSpeedKmh(Norm(get_real_world_pos(c.pos), c.pre.last_pos),
                 c.frame - c.pre.last_frame, c.fps)

CallInstSpeed == InstSpeedOf(call)

\* what the observed call c adds to the history of the drive
Logged(d, idx, c) ==
    LET fresh == c.known /\ c.frame > c.pre.last_frame
        stale == c.known /\ c.frame <= c.pre.last_frame
        moving == fresh /\ 5000 < InstSpeedOf(c) /\ InstSpeedOf(c) < 220000
    IN [d EXCEPT !.idx = idx,
                 !.log = IF moving THEN Append(@, InstSpeedOf(c)) ELSE @,
                 !.rejected = IF fresh /\ ~moving THEN @ + 1 ELSE @,
                 !.stale = @ \/ stale]

\* the next observation of the vehicle on its drive
DriveNext ==
    /\ drive.plan # 0
    /\ drive.idx < MaxDrive
    /\ LET plan == Plans[drive.plan]
       IN /\ Observe(DriveTrack, PlanPoint(plan, drive.idx), drive.idx * plan.step, 30)
          /\ drive' = Logged(drive, drive.idx + 1, call')
          /\ UNCHANGED pending

\* the first observation of a vehicle
DriveStart(pl) ==
    /\ drive.plan = 0
    /\ Observe(DriveTrack, Plans[pl].cycle[1], 0, 30)
    /\ drive' = [NoDrive EXCEPT !.plan = pl, !.idx = 1]
    /\ UNCHANGED pending

\* the tracker reports the vehicle once more on a frame already seen
DriveRepeat(back) ==
    /\ drive.plan # 0
    /\ tracker_data[DriveTrack].last_frame - back >= 0
    /\ Observe(DriveTrack, Plans[drive.plan].cycle[1],
               tracker_data[DriveTrack].last_frame - back, 30)
    /\ drive' = Logged(drive, drive.idx, call')
    /\ UNCHANGED pending

\* a call of VideoProcessor.process_frame_data
ProcessFrame(frame, frame_number, fps, annotate) ==
    \E r \in {process_frame_data(tracker_data, plate_cache, model_loaded, reader, now,
                                  frame, frame_number, fps, annotate)} :
       /\ tracker_data' = r.td
       /\ plate_cache' = r.cache
       /\ frame_out' = [NoFrameOut EXCEPT
                           !.op = "process_frame_data", !.frame = frame,
                           !.reads = r.reads, !.detections = r.detections,
                           !.annotated = r.annotated, !.raised = r.raised,
                           !.speed_calls = r.speed_calls, !.marks = r.marks,
                           !.annotate = annotate]
       /\ UNCHANGED <<model_loaded, reader, now, call, attempts, resolved, streams,
                      iso, msg_out, drive, pending>>

\* a call of VideoProcessor.process_frame_data on a frame of overlapping
\* vehicles, next to what the same call returns without annotation
AnnotateFrame(frame, frame_number, fps, annotate) ==
    \E r \in {process_frame_data(tracker_data, plate_cache, model_loaded, reader, now,
                                  frame, frame_number, fps, annotate)} :
    \E plain \in {process_frame_data(tracker_data, plate_cache, model_loaded, reader, now,
                                      frame, frame_number, fps, FALSE)} :
       /\ tracker_data' = r.td
       /\ plate_cache' = r.cache
       /\ frame_out' = [NoFrameOut EXCEPT
                           !.op = "annotate_frame", !.frame = frame,
                           !.reads = r.reads, !.detections = r.detections,
                           !.annotated = r.annotated, !.raised = r.raised,
                           !.speed_calls = r.speed_calls, !.marks = r.marks,
                           !.annotate = annotate, !.plain = plain.detections]
       /\ UNCHANGED <<model_loaded, reader, now, call, attempts, resolved, streams,
                      iso, msg_out, drive, pending>>

Event(stream_id, frame_number, det) ==
    [stream_id |-> stream_id,
     frame_number |-> frame_number,
     vehicle_type |-> det.vehicle_type,
     confidence |-> det.confidence,
     box_coordinates |-> det.box_coordinates,
     license_plate |-> det.license_plate,
     speed |-> det.speed,
     track_id |-> det.track_id]

Events(stream_id, frame_number, detections) ==
    [i \in 1..Len(detections) |-> Event(stream_id, frame_number, detections[i])]

\* one iteration of the consumer loop of main() on a message with frame data
Consume(stream_id, frame, frame_rate) ==
    /\ streams[stream_id] <= MaxFrameNo
    /\ \E frame_number \in {streams[stream_id]} :
       \E r \in {process_frame_data(tracker_data, plate_cache, model_loaded, reader, now,
                                     frame, frame_number, frame_rate, TRUE)} :
       \E own \in {process_frame_data(iso[stream_id].td, iso[stream_id].cache,
                                       model_loaded, reader, now, frame, frame_number,
                                       frame_rate, TRUE)} :
          /\ streams' = [streams EXCEPT ![stream_id] = @ + 1]
          /\ tracker_data' = r.td
          /\ plate_cache' = r.cache
          /\ msg_out' = [op |-> "message", stream_id |-> stream_id,
                         frame_number |-> frame_number,
                         events |-> Events(stream_id, frame_number, r.detections),
                         frame_event |-> r.annotated, error |-> r.raised]
          /\ iso' = [iso EXCEPT ![stream_id] =
                        [td |-> own.td, cache |-> own.cache,
                         events |-> Events(stream_id, frame_number, own.detections)]]
          /\ UNCHANGED <<model_loaded, reader, now, call, attempts, resolved, frame_out,
                         drive, pending>>

\* one iteration of the consumer loop on a message without frame data
ConsumeEmpty(stream_id) ==
    /\ streams[stream_id] <= MaxFrameNo
    /\ streams' = [streams EXCEPT ![stream_id] = @ + 1]
    /\ msg_out' = [NoMsgOut EXCEPT !.op = "skipped", !.stream_id = stream_id,
                                   !.frame_number = streams[stream_id]]
    /\ UNCHANGED <<tracker_data, plate_cache, model_loaded, reader, now, call,
                   attempts, resolved, frame_out, iso, drive, pending>>

----------------------------------------------------------------------------
(* Specifications *)

NextSpeed ==
    \E k \in TrackIds, p \in ImagePoints, f \in Frames, fps \in FrameRates :
        EstimateSpeed(k, p, f, fps)

NextAlpr ==
    \/ \E img \in VehicleImages, k \in TrackIds : DetectAndRead(img, k)
    \/ \E img \in VehicleImages : FallbackOcr(img)
    \/ \E d \in TickSteps : Tick(d)

NextFrame ==
    \E fr \in FramesIn, f \in FrameNos, fps \in FrameRates, a \in Annotate :
        ProcessFrame(fr, f, fps, a)

NextStream ==
    \/ \E s \in StreamIds, fr \in StreamFrames, fps \in FrameRates : Consume(s, fr, fps)
    \/ \E s \in StreamIds : ConsumeEmpty(s)

\* detect_and_read called from several threads
NextRace ==
    \/ \E i \in Threads, img \in RaceImages, k \in TrackIds : Enter(i, img, k)
    \/ \E i \in Threads : Complete(i)
    \/ \E d \in TickSteps : Tick(d)

\* the texts of one vehicle: normalized, read from its crop, cached
NextClean ==
    \/ \E text \in RawTexts : CleanPlateText(text)
    \/ \E img \in VehicleImages : DetectAndRead(img, DriveTrack)
    \/ \E img \in VehicleImages : FallbackOcr(img)

NextAnnotate ==
    \E fr \in OverlapFrames, f \in FrameNos, fps \in FrameRates, a \in BOOLEAN :
        AnnotateFrame(fr, f, fps, a)

NextDrive ==
    \/ \E pl \in 1..Len(Plans) : DriveStart(pl)
    \/ DriveNext
    \/ \E back \in {0, 1} : DriveRepeat(back)

Next ==
    \/ NextSpeed \/ NextAlpr \/ NextFrame \/ NextStream \/ NextDrive \/ NextAnnotate
    \/ NextClean \/ NextRace

SpecSpeed == Init /\ [][NextSpeed]_vars
SpecAlpr == Init /\ [][NextAlpr]_vars
SpecFrame == Init /\ [][NextFrame]_vars
SpecStream == Init /\ [][NextStream]_vars
SpecRace == Init /\ [][NextRace]_vars
SpecClean == Init /\ [][NextClean]_vars
SpecAnnotate == Init /\ [][NextAnnotate]_vars
SpecDrive == Init /\ [][NextDrive]_vars
Spec == Init /\ [][Next]_vars

----------------------------------------------------------------------------
(* Properties of estimate_speed, checked under SpecSpeed *)

IsSpeedCall == call.op = "estimate_speed" /\ ~call.raised
Track == tracker_data[call.track_id]

\* C1: every estimate_speed call returns 0 as long as the track has
\* stable_frames < 15 or hits < 8, calls on a repeated or older frame included.
C1_GraceGate ==
    IsSpeedCall /\ (Track.stable_frames < 15 \/ Track.hits < 8) => call.ret = 0

\* C8: the first call for an unknown track id returns 0 and creates the track
\* with the given frame, the mapped ground position, an empty history and
\* current_speed, stable_frames and hits at 0.
C8_FirstCall ==
    IsSpeedCall /\ ~call.known =>
        /\ call.ret = 0
        /\ Track = [last_frame |-> call.frame,
                    last_pos |-> get_real_world_pos(call.pos),
                    speed_history |-> <<>>,
                    current_speed |-> 0,
                    stable_frames |-> 0,
                    hits |-> 0]

\* a first call on a later frame, while another track is already moving
C8_Witness ==
    /\ IsSpeedCall /\ ~call.known /\ call.frame > 0
    /\ \E k \in DOMAIN tracker_data : tracker_data[k].hits > 0

\* C9: a call on a frame index not after the track's last_frame returns
\* current_speed and leaves the whole track record as it was.
C9_StaleFrame ==
    IsSpeedCall /\ call.known /\ call.frame <= call.pre.last_frame =>
        /\ call.ret = call.pre.current_speed
        /\ Track = call.pre

\* an older frame at another place, for a track that already has a speed
C9_Witness ==
    /\ IsSpeedCall /\ call.known /\ call.frame < call.pre.last_frame
    /\ call.pre.current_speed > 0
    /\ get_real_world_pos(call.pos) # call.pre.last_pos

IsFreshCall == IsSpeedCall /\ call.known /\ call.frame > call.pre.last_frame

\* C10: a sample of at most 5 or at least 220 km/h is not appended; the call
\* leaves speed_history, hits, stable_frames and current_speed unchanged and
\* sets last_pos and last_frame to the new observation.
C10_Rejected ==
    IsFreshCall /\ (CallInstSpeed <= 5000 \/ CallInstSpeed >= 220000) =>
        /\ Track.speed_history = call.pre.speed_history
        /\ Track.hits = call.pre.hits
        /\ Track.stable_frames = call.pre.stable_frames
        /\ Track.current_speed = call.pre.current_speed
        /\ Track.last_pos = get_real_world_pos(call.pos)
        /\ Track.last_frame = call.frame

\* a jump of more than 220 km/h rejected for a track that has a speed
C10_Witness ==
    /\ IsFreshCall /\ CallInstSpeed >= 220000
    /\ call.pre.current_speed > 0
    /\ Track.last_pos # call.pre.last_pos

----------------------------------------------------------------------------
(* Properties of detect_and_read, checked under SpecAlpr *)

IsReadCall == call.op = "detect_and_read"

IsPlate(v) == Truthy(v) /\ v # Scanning

\* C2: for a track whose plate is unresolved, recognition is invoked only if at
\* least 2.0 seconds have passed since the previous attempt for that track.
C2_Throttle ==
    IsReadCall /\ call.prev_resolved = None /\ call.prev_attempt >= 0 /\ call.recog > 0
        => call.at - call.prev_attempt >= 20

\* C3: once a plate text was returned for a track id, every later call returns
\* that text and invokes neither the plate detector nor OCR.
C3_Durable ==
    IsReadCall /\ call.prev_resolved # None =>
        /\ ~call.raised
        /\ call.ret = call.prev_resolved
        /\ call.recog = 0

\* C4: with reader None every detect_and_read call completes without raising
\* and yields an unresolved value.
C4_ReaderNone ==
    IsReadCall /\ reader = "None" => ~call.raised /\ ~IsPlate(call.ret)

IsAttempt == IsReadCall /\ call.attempt

\* C16: every recognition attempt, successful or not and on either path,
\* leaves a cache entry for the track whose last_attempt is the time of the
\* attempt; the cached text changes only by an attempt that produced a
\* non-empty text.
C16_AttemptRecorded ==
    /\ IsAttempt /\ ~call.raised =>
          /\ call.track_id \in DOMAIN plate_cache
          /\ plate_cache[call.track_id].last_attempt = call.at
    /\ IsReadCall /\ call.cached =>
          \/ plate_cache[call.track_id].text = call.pre_text
          \/ IsAttempt /\ Truthy(call.ret) /\ plate_cache[call.track_id].text = call.ret

\* the candidate regions of the plate stage that have an area and whose first
\* reading has a confidence above 0.3
Candidates(img) ==
    {i \in 1..Len(img.plates) :
        /\ img.plates[i].box[1] < img.plates[i].box[3]
        /\ img.plates[i].box[2] < img.plates[i].box[4]
        /\ img.plates[i].ocr # <<>>
        /\ img.plates[i].ocr[1][2] > 30}

\* the text the plate stage of an attempt on img produces, empty if none
StageText(img) ==
    IF ~model_loaded \/ Candidates(img) = {} THEN <<>>
    ELSE LET first == CHOOSE i \in Candidates(img) : \A j \in Candidates(img) : i <= j
         IN _clean_plate_text(img.plates[first].ocr[1][1])

\* C17: in one attempt the plate-region stage runs first and the first
\* candidate region read with a confidence strictly above 0.3 supplies the
\* result; the whole-crop fallback runs if and only if the detector is
\* unavailable or that stage produced no non-empty text, at most once.
C17_StagedAttempt ==
    IsAttempt =>
        /\ call.model_calls = IF model_loaded THEN 1 ELSE 0
        /\ StageText(call.img) # <<>> => call.ret = StageText(call.img)
        /\ call.fb_calls = IF ~model_loaded \/ StageText(call.img) = <<>> THEN 1 ELSE 0

\* the readings of the whole-crop OCR whose normalized text has 5 characters
\* or more
Eligible(img) ==
    {i \in 1..Len(img.fallback) : Len(_clean_plate_text(img.fallback[i][1])) >= 5}

\* C18: _fallback_ocr returns the normalized text of a reading of maximal
\* confidence among those with a normalized length of 5 or more whenever
\* there is one, its confidence being 0 included, and no result only when
\* there is none.
C18_FallbackBest ==
    call.op = "_fallback_ocr" /\ reader # "None" =>
        IF Eligible(call.img) = {}
        THEN call.ret = None
        ELSE \E i \in Eligible(call.img) :
                /\ \A j \in Eligible(call.img) :
                      call.img.fallback[j][2] <= call.img.fallback[i][2]
                /\ call.ret = _clean_plate_text(call.img.fallback[i][1])

----------------------------------------------------------------------------
(* Properties of process_frame_data, checked under SpecFrame *)

IsFrameCall == frame_out.op = "process_frame_data"

\* C5: an error raised for one tracked box does not abort the frame: the call
\* returns normally and every other box has its record.
C5_ErrorIsolated ==
    IsFrameCall =>
        /\ ~frame_out.raised
        /\ \A i \in 1..Len(frame_out.frame.boxes) :
              \/ frame_out.raised /\ i = Len(frame_out.reads)
              \/ \E j \in 1..Len(frame_out.detections) :
                    frame_out.detections[j].track_id = frame_out.frame.boxes[i].track_id

\* C6: license_plate of every record is null or a non-empty plate text, never
\* the sentinel "Scanning..." and never the empty string.
C6_NoSentinelLeak ==
    \A i \in 1..Len(frame_out.detections) :
        LET lp == frame_out.detections[i].license_plate
        IN lp = None \/ (lp # <<>> /\ lp # Scanning)

\* a record with a null plate for a box on which detect_and_read gave the
\* sentinel, next to a record with a plate text
C6_Witness ==
    /\ IsFrameCall /\ Len(frame_out.detections) = 2
    /\ \E i, j \in 1..2 :
          /\ frame_out.reads[i] = Scanning
          /\ frame_out.detections[i].license_plate = None
          /\ frame_out.detections[j].license_plate = TextAB1234

----------------------------------------------------------------------------
(* Properties of the stream loop, checked under SpecStream *)

\* C7: what is published for a message of a stream is what a processor fed
\* with that stream alone would have published.
C7_StreamIsolation ==
    msg_out.op = "message" => msg_out.events = iso[msg_out.stream_id].events

(***************************************************************************)
(* The smoothed speed of a drive                                           *)
(***************************************************************************)

IsDriveCall == IsSpeedCall /\ call.track_id = DriveTrack /\ drive.plan # 0
Driven == tracker_data[DriveTrack]

\* C11: current_speed of every track lies in [0, 160.0] in every state, and so
\* does every value estimate_speed returns; an accepted sample is stored in
\* speed_history as it was computed, also when it lies above 160.
C11_DisplayRange ==
    /\ \A k \in DOMAIN tracker_data :
          0 <= tracker_data[k].current_speed /\ tracker_data[k].current_speed <= 160000
    /\ IsSpeedCall => 0 <= call.ret /\ call.ret <= 160000
    /\ IsFreshCall /\ 5000 < CallInstSpeed /\ CallInstSpeed < 220000
          => /\ Track.speed_history # <<>>
             /\ Track.speed_history[Len(Track.speed_history)] = CallInstSpeed

C11_Witness ==
    /\ IsDriveCall /\ IsFreshCall
    /\ CallInstSpeed > 160000
    /\ Driven.speed_history # <<>>
    /\ Driven.speed_history[Len(Driven.speed_history)] = CallInstSpeed
    /\ Driven.current_speed = 160000
    /\ call.ret = 160000

\* C12: speed_history never holds more than 25 entries and is always the most
\* recent (up to 25) accepted samples in the order they were accepted: the
\* 26th accepted sample removes the oldest one.
C12_HistoryWindow ==
    drive.plan # 0 =>
        LET h == Driven.speed_history
            n == Len(drive.log)
        IN /\ Len(h) <= 25
           /\ h = SubSeq(drive.log, IF n > 25 THEN n - 24 ELSE 1, n)

C12_Witness ==
    /\ drive.plan # 0
    /\ Len(drive.log) >= 26
    /\ drive.log[1] # drive.log[Len(drive.log)]
    /\ Len(Driven.speed_history) = 25

\* C13: a track none of whose instantaneous speeds lay in (5, 220), a
\* stationary one included, has current_speed 0 and every call for it
\* returns 0, however many frames it is observed for.
C13_NeverMoving ==
    drive.plan # 0 /\ drive.log = <<>> =>
        /\ Driven.current_speed = 0
        /\ IsDriveCall => call.ret = 0

C13_Witness ==
    /\ IsDriveCall /\ IsFreshCall
    /\ CallInstSpeed = 0
    /\ drive.log = <<>>
    /\ drive.rejected >= 20
    /\ Driven.last_frame >= 20

SameSpeed == \A i \in 1..Len(drive.log) : drive.log[i] = drive.log[1]

\* C14: for a track seen on strictly increasing frames whose instantaneous
\* speeds are all the same v in (5, 220), every call made once hits >= 8 and
\* stable_frames >= 15 returns min(v rounded to one decimal, 160.0), and
\* every call before that returns 0.
C14_ConstantSpeed ==
    IsDriveCall /\ ~drive.stale /\ drive.rejected = 0 /\ SameSpeed =>
        call.ret = IF Driven.hits >= 8 /\ Driven.stable_frames >= 15
                   THEN Min(Round1(drive.log[1]), 160000)
                   ELSE 0

C14_Witness ==
    /\ IsDriveCall /\ ~drive.stale /\ drive.rejected = 0 /\ SameSpeed
    /\ Driven.hits >= 8 /\ Driven.stable_frames >= 15
    /\ call.ret = Round1(drive.log[1])
    /\ call.ret < 160000

\* C15: current_speed is min(round1(m), 160.0), m the mean of all entries of
\* speed_history when it has at most 15, else the mean of exactly the 10
\* entries at positions mid-5 .. mid+4 of its ascending sort (mid = len div 2),
\* a window that lies inside the list for the lengths 16 .. 25; sorting leaves
\* speed_history in acceptance order.
C15_TrimmedMean ==
    drive.plan # 0 /\ Driven.speed_history # <<>> =>
        LET h == Driven.speed_history
            n == Len(h)
            mid == n \div 2
            m == IF n <= 15
                 THEN RoundDiv(SumSeq(h), n)
                 ELSE RoundDiv(SumSeq(SubSeq(Sorted(h), mid - 4, mid + 5)), 10)
        IN /\ Driven.current_speed = Min(Round1(m), 160000)
           /\ n > 15 => 1 <= mid - 4 /\ mid + 5 <= n
           /\ h = SubSeq(drive.log, Len(drive.log) - n + 1, Len(drive.log))

C15_Witness ==
    /\ drive.plan # 0
    /\ Len(Driven.speed_history) = 25
    /\ Driven.speed_history # Sorted(Driven.speed_history)
    /\ Driven.current_speed #
          Min(Round1(RoundDiv(SumSeq(Driven.speed_history), 25)), 160000)

----------------------------------------------------------------------------
(* Properties of process_frame_data on the boxes of one frame *)

\* C19: the region handed to detect_and_read comes from the unannotated
\* frame: no box or label drawn for an earlier track lies in the crop of a
\* later one, and the records are those of the call without annotation.
C19_CropUnannotated ==
    frame_out.op = "annotate_frame" =>
        /\ \A i \in 1..Len(frame_out.marks) : frame_out.marks[i] = <<>>
        /\ frame_out.detections = frame_out.plain

HasArea(b) == b.xyxy[1] < b.xyxy[3] /\ b.xyxy[2] < b.xyxy[4]

\* C20: one record per tracked box, in input order; estimate_speed is called
\* once for each box, detect_and_read once for a box with a non-empty crop
\* and not at all for an empty one, whose record has a null plate; without
\* track ids there is no record and no call.
C20_OneRecordPerBox ==
    IsFrameCall =>
        LET boxes == frame_out.frame.boxes
        IN IF frame_out.frame.has_ids
           THEN /\ Len(frame_out.detections) = Len(boxes)
                /\ Len(frame_out.reads) = Len(boxes)
                /\ frame_out.speed_calls = Len(boxes)
                /\ \A i \in 1..Len(boxes) :
                      /\ frame_out.detections[i].track_id = boxes[i].track_id
                      /\ frame_out.detections[i].box_coordinates = boxes[i].xyxy
                      /\ (frame_out.reads[i] = NotCalled) <=> ~HasArea(boxes[i])
                      /\ ~HasArea(boxes[i]) => frame_out.detections[i].license_plate = None
           ELSE /\ frame_out.detections = <<>>
                /\ frame_out.reads = <<>>
                /\ frame_out.speed_calls = 0

----------------------------------------------------------------------------
(* Properties of the plate texts, checked under SpecClean *)

Plain(c) == c \in Digits \/ \E i \in 1..26 : UpperCase[i] = c
Letter(c) == \E i \in 1..26 : LowerCase[i] = c \/ UpperCase[i] = c
Kept(c) == c \in Digits \/ Letter(c)
SameLetter(c, d) == \E i \in 1..26 : c \in {LowerCase[i], UpperCase[i]} /\ d = UpperCase[i]

IsNormalized(text) == \A i \in 1..Len(text) : Plain(text[i])

\* out holds the letters and digits of text, in their order, letters in upper case
NormalizedFrom(text, out) ==
    LET kept == SelectSeq(text, Kept)
    IN /\ Len(out) = Len(kept)
       /\ \A i \in 1..Len(kept) :
             IF kept[i] \in Digits THEN out[i] = kept[i] ELSE SameLetter(kept[i], out[i])

IsCleanCall == call.op = "_clean_plate_text"

CleanCorrect ==
    IsCleanCall =>
        /\ IsNormalized(call.ret)
        /\ NormalizedFrom(call.text, call.ret)
        /\ _clean_plate_text(call.ret) = call.ret

CacheNormalized ==
    \A k \in DOMAIN plate_cache :
        Truthy(plate_cache[k].text) => IsNormalized(plate_cache[k].text)

----------------------------------------------------------------------------
(* Properties of overlapping detect_and_read invocations, checked under SpecRace *)

\* C22: cache updates of overlapping invocations for one track id are
\* serialized: a resolved text written for the track is never replaced by
\* another invocation's different result, and last_attempt never goes back to
\* the time of an invocation that started earlier.
C22_Serialized ==
    [][\A k \in DOMAIN plate_cache :
          /\ IsPlate(plate_cache[k].text) => plate_cache'[k].text = plate_cache[k].text
          /\ plate_cache'[k].last_attempt >= plate_cache[k].last_attempt]_vars

----------------------------------------------------------------------------
(* Properties of the counters and the frame clock of a track *)

GateOpen(d) == d.stable_frames >= 15 /\ d.hits >= 8

\* C23: stable_frames and hits never decrease, so once stable_frames >= 15 and
\* hits >= 8 hold they hold forever; from then on every call returns the
\* smoothed speed, a value in [5.0, 160.0] and never 0, and when the sample is
\* rejected (the vehicle has stopped) the value returned before.
C23_GateLatched ==
    [][\A k \in DOMAIN tracker_data :
          LET d == tracker_data[k]
              e == tracker_data'[k]
          IN /\ e.hits >= d.hits /\ e.stable_frames >= d.stable_frames
             /\ GateOpen(d) => GateOpen(e)
             /\ GateOpen(d) /\ call'.op = "estimate_speed" /\ call'.track_id = k
                  => /\ 5000 <= call'.ret /\ call'.ret <= 160000
                     /\ call'.ret = e.current_speed
                     /\ e.hits = d.hits => call'.ret = d.current_speed]_vars

C23_Witness ==
    /\ IsDriveCall /\ IsFreshCall
    /\ GateOpen(Driven) /\ GateOpen(call.pre)
    /\ CallInstSpeed = 0
    /\ drive.rejected >= 5
    /\ call.ret = Driven.current_speed
    /\ call.ret >= 5000

\* C24: for every track, speed_history has min(hits, 25) entries, each
\* strictly between 5 and 220, stable_frames >= hits, and current_speed is 0
\* exactly when hits is 0; an accepted sample raises hits by 1 and
\* stable_frames by the frames elapsed since the previous observation.
C24_Counters ==
    /\ \A k \in DOMAIN tracker_data :
          LET d == tracker_data[k]
          IN /\ Len(d.speed_history) = (IF d.hits < 25 THEN d.hits ELSE 25)
             /\ d.stable_frames >= d.hits
             /\ \A i \in 1..Len(d.speed_history) :
                   5000 < d.speed_history[i] /\ d.speed_history[i] < 220000
             /\ (d.current_speed = 0) <=> (d.hits = 0)
    /\ IsFreshCall /\ 5000 < CallInstSpeed /\ CallInstSpeed < 220000
          => /\ Track.hits = call.pre.hits + 1
             /\ Track.stable_frames
                   = call.pre.stable_frames + (call.frame - call.pre.last_frame)

C24_Witness ==
    /\ IsDriveCall /\ IsFreshCall
    /\ 5000 < CallInstSpeed /\ CallInstSpeed < 220000
    /\ Driven.hits > 25
    /\ Len(Driven.speed_history) = 25
    /\ Driven.stable_frames > Driven.hits

\* C25: last_frame of a track never decreases and is the largest frame index
\* passed to estimate_speed for it so far; a call that changes the track's
\* state strictly increases last_frame, and a call on an older frame leaves
\* last_frame and last_pos as they are.
C25_FrameClock ==
    [][/\ \A k \in DOMAIN tracker_data :
            LET d == tracker_data[k]
                e == tracker_data'[k]
            IN /\ e.last_frame >= d.last_frame
               /\ e # d => e.last_frame > d.last_frame
               /\ call'.op = "estimate_speed" /\ call'.track_id = k
                    => /\ e.last_frame = (IF call'.frame > d.last_frame
                                          THEN call'.frame ELSE d.last_frame)
                       /\ call'.frame <= d.last_frame => e.last_pos = d.last_pos
       /\ \A k \in DOMAIN tracker_data' \ DOMAIN tracker_data :
            call'.track_id = k /\ tracker_data'[k].last_frame = call'.frame]_vars

C25_Witness ==
    /\ IsSpeedCall /\ call.known
    /\ call.frame < call.pre.last_frame
    /\ get_real_world_pos(call.pos) # call.pre.last_pos
    /\ Track.last_frame = call.pre.last_frame
    /\ Track.last_pos = call.pre.last_pos

====
